---- MODULE Spec2Model ----
(***************************************************************************)
(* Model of inferelator_ng/sparse_blocksparse.py: the Dirty-Model solver   *)
(* (MT_SBS_OneGene), the EBIC grid search and rescaling of                 *)
(* run_regression_EBIC_SS, and the argument construction of                *)
(* MT_SBS_regression.run.                                                  *)
(*                                                                         *)
(* Real numbers are fixed-point integers with SCALE units per 1.0; every   *)
(* division truncates toward zero.  Matrices are sequences: a data matrix  *)
(* is a sequence of sample rows, a coefficient matrix S, B, W is indexed   *)
(* [feature][task], C is indexed [task][feature] and D                     *)
(* [task][feature][feature].  Positions are 1-based here and 0-based in    *)
(* the source; original task identifiers keep the source's 0-based values. *)
(***************************************************************************)
EXTENDS Integers, Sequences, FiniteSets, TLC

VARIABLES
    design,     \* run: per original task, the raw design matrix
    response,   \* run: per original task, the gene's raw response or None
    args,       \* the args dict handed to run_regression_EBIC_SS
    args0,      \* history: args as they were when the call was made
    pc,         \* position in the code
    caller,     \* who called fit: "grid" (run_regression_EBIC_SS) or "direct"
    Xs, Ys,     \* X, Y as fit / ebic / final_weights read them
    C, D,       \* covariance update terms
    S, B,       \* sparse and block-sparse coefficients
    W, W_old,   \* weights and the copy saved for the convergence test
    lamB, lamS, \* penalties of the current fit
    n_iter,     \* rounds of the current fit completed
    update,     \* max |W - W_old| of the last round
    cursor,     \* updateS: <<task, feature>> to do next; updateB: <<feature>>
    alphas,     \* updateB: the unregularized coefficients of the current row
    indices,    \* updateB: the task positions by decreasing |alpha|
    sorted_alphas,  \* updateB: alphas in that order
    m_star,     \* updateB: the rank up to which coefficients are regularized
    grid,       \* <<outer index into Cs, inner index into Ss>>
    best,       \* min_ebic, lamB, lamS, outW of the grid search
    output,     \* result of run_regression_EBIC_SS / final_weights
    error,      \* exception raised, "none" if none
    hist,       \* history: per evaluated grid point, its score, W and penalties
    trace       \* history: S, B at entry and exit of fits, alphas of the last sweeps

vars == <<design, response, args, args0, pc, caller, Xs, Ys, C, D, S, B, W,
          W_old, lamB, lamS, n_iter, update, cursor, alphas, indices, sorted_alphas,
          m_star, grid, best, output, error, hist, trace>>

---------------------------------------------------------------------------
(* Fixed-point arithmetic *)

SCALE == 10 ^ 3

None == << >>

Abs(a) == IF a < 0 THEN -a ELSE a

\* np.sign
Sign(a) == IF a > 0 THEN 1 ELSE IF a < 0 THEN -1 ELSE 0

\* a / b on fixed-point values, truncated toward zero
Quot(a, b) ==
    LET q == Abs(a) \div Abs(b)
    IN  IF (a >= 0) = (b > 0) THEN q ELSE -q

\* f itself, as a tabulated function
Tab(f) == f @@ << >>

RECURSIVE SeqSum(_)
SeqSum(s) == IF s = << >> THEN 0 ELSE Head(s) + SeqSum(Tail(s))

RECURSIVE SeqMax(_)
SeqMax(s) ==
    IF Len(s) = 1 THEN Head(s)
    ELSE LET m == SeqMax(Tail(s)) IN IF Head(s) >= m THEN Head(s) ELSE m

RECURSIVE ISqrtIn(_, _, _)
ISqrtIn(n, lo, hi) ==
    IF lo >= hi THEN lo
    ELSE LET mid == (lo + hi + 1) \div 2
         IN  IF mid * mid <= n THEN ISqrtIn(n, mid, hi)
             ELSE ISqrtIn(n, lo, mid - 1)

\* floor of the square root of a natural number
ISqrt(n) == ISqrtIn(n, 0, 46340)

RECURSIVE Log2Floor(_)
Log2Floor(m) == IF m < 2 THEN 0 ELSE 1 + Log2Floor(m \div 2)

\* np.log of an integer m >= 1, in SCALE units: m = r/1024 * 2^k with r/1024 in
\* [1,2), ln m = k ln 2 + 2 atanh((r-1024)/(r+1024)), series to the 7th power
LnInt(m) ==
    LET k  == Log2Floor(m)
        r  == IF k >= 10 THEN m \div (2 ^ (k - 10)) ELSE m * (2 ^ (10 - k))
        t  == ((r - 1024) * 10000) \div (r + 1024)
        t2 == (t * t) \div 10000
        t3 == (t * t2) \div 10000
        t5 == (t3 * t2) \div 10000
        t7 == (t5 * t2) \div 10000
        at == t + (t3 \div 3) + (t5 \div 5) + (t7 \div 7)
    IN  (k * 6931 + 2 * at) \div 10

---------------------------------------------------------------------------
(* Shapes *)

NFeat(M) == Len(M)
NTask(M) == Len(M[1])

Zeros(p, t) == Tab([j \in 1..p |-> Tab([k \in 1..t |-> 0])])

MatAdd(M, N) ==
    Tab([j \in 1..NFeat(M) |-> Tab([k \in 1..NTask(M) |-> M[j][k] + N[j][k]])])

Column(M, j) == Tab([i \in 1..Len(M) |-> M[i][j]])

---------------------------------------------------------------------------
(* MT_SBS_OneGene *)

max_iter == 1000

tolerance == SCALE \div 100

\* the absolute floor under which fit zeroes W
w_floor == SCALE \div 10

\* StandardScaler().fit_transform on one column: (x - mean) / std with the
\* population std, a constant column scaled by 1 and so left at zero
StandardizeCol(col) ==
    LET n  == Len(col)
        s  == SeqSum(col)
        v2 == n * SeqSum([i \in 1..n |-> col[i] * col[i]]) - s * s
    IN  Tab([i \in 1..n |->
            IF v2 = 0 THEN 0
            ELSE LET dx == n * col[i] - s
                 IN  Sign(dx) * ISqrt((SCALE * SCALE * dx * dx) \div v2)])

StandardizeMat(M) ==
    LET cols == Tab([j \in 1..Len(M[1]) |-> StandardizeCol(Column(M, j))])
    IN  Tab([i \in 1..Len(M) |-> Tab([j \in 1..Len(M[1]) |-> cols[j][i]])])

\* preprocess_data: X[k], Y[k] replaced by their standardized values
preprocess_data(n_tasks, X, Y) ==
    [X |-> Tab([k \in 1..Len(X) |-> IF k <= n_tasks THEN StandardizeMat(X[k]) ELSE X[k]]),
     Y |-> Tab([k \in 1..Len(Y) |-> IF k <= n_tasks THEN StandardizeCol(Y[k]) ELSE Y[k]])]

\* covariance_update_terms: C[k] = Y[k]^T X[k], D[k] = X[k]^T X[k]
covariance_update_terms(n_tasks, n_features, X, Y) ==
    [C |-> Tab([k \in 1..n_tasks |-> Tab([j \in 1..n_features |->
              Quot(SeqSum([i \in 1..Len(X[k]) |-> Y[k][i] * X[k][i][j]]), SCALE)])]),
     D |-> Tab([k \in 1..n_tasks |-> Tab([j \in 1..n_features |-> Tab([l \in 1..n_features |->
              Quot(SeqSum([i \in 1..Len(X[k]) |-> X[k][i][j] * X[k][i][l]]), SCALE)])])])]

\* updateS, lines 64-70: the coefficient of feature j in task k from the fit
\* alone, with s[j] set to zero
AlphaS(c, d, Bm, Sm, k, j) ==
    IF d[k][j][j] = 0 THEN 0
    ELSE Quot(c[k][j] * SCALE
              - SeqSum([l \in 1..NFeat(Sm) |->
                    (Bm[l][k] + (IF l = j THEN 0 ELSE Sm[l][k])) * d[k][j][l]]),
              d[k][j][j])

ThresholdSAbs(alpha, lam) ==
    IF Abs(alpha) <= lam THEN 0 ELSE alpha - Sign(alpha) * lam

\* updateS, lines 72-75: the lasso regularization of one coefficient
ThresholdS(alpha, lam) ==
    IF alpha <= lam THEN 0 ELSE alpha - Sign(alpha) * lam

\* updateB, lines 96-106: the coefficient of feature j in task k from the fit
\* alone, with b[j] set to zero
AlphaB(c, d, Bm, Sm, k, j) ==
    IF d[k][j][j] = 0 THEN 0
    ELSE Quot(c[k][j] * SCALE
              - SeqSum([l \in 1..NFeat(Bm) |->
                    ((IF l = j THEN 0 ELSE Bm[l][k]) + Sm[l][k]) * d[k][l][j]]),
              d[k][j][j])

\* line 113: np.abs(alphas).argsort()[::-1], the task positions by decreasing
\* |alpha|; the ascending sort is stable at these sizes, so that after the
\* reversal equal magnitudes come in decreasing position
SortedIndices(al) ==
    LET n == Len(al)
        Before(a, b) == \/ Abs(al[a]) > Abs(al[b])
                        \/ Abs(al[a]) = Abs(al[b]) /\ a > b
    IN  Tab([r \in 1..n |->
            CHOOSE k \in 1..n : Cardinality({a \in 1..n : Before(a, k)}) = r - 1])

\* np.abs(sorted_alphas).cumsum()
CumAbs(sorted) == Tab([i \in 1..Len(sorted) |->
                      SeqSum([l \in 1..i |-> Abs(sorted[l])])])

RECURSIVE ArgMaxFrom(_, _, _, _)
ArgMaxFrom(cum, lam, i, m) ==
    IF i > Len(cum) THEN m
    ELSE IF (cum[i] - lam) * m > (cum[m] - lam) * i
         THEN ArgMaxFrom(cum, lam, i + 1, i)
         ELSE ArgMaxFrom(cum, lam, i + 1, m)

\* line 115: np.argmax((cumsum - lamB) / (arange + 1)), the first rank whose
\* quotient is the largest; a 1-based rank, m_star + 1 of the source
MStar(sorted, lam) == LET cum == CumAbs(sorted) IN ArgMaxFrom(cum, lam, 2, 1)

new_weights_short(idx, sorted, m, lam) ==
    LET n       == Len(sorted)
        term    == SeqSum([l \in 1..(m - 1) |-> Abs(sorted[l])]) - lam
        rank(k) == CHOOSE r \in 1..n : idx[r] = k
    IN  Tab([k \in 1..n |->
            IF rank(k) > m THEN sorted[rank(k)]
            ELSE Quot(Sign(sorted[rank(k)]) * term, m)])

\* updateB, lines 117-126: the coefficients beyond rank m kept, the others
\* set to the regularized magnitude with their sign
new_weights(idx, sorted, m, lam) ==
    LET n       == Len(sorted)
        term    == SeqSum([l \in 1..m |-> Abs(sorted[l])]) - lam
        rank(k) == CHOOSE r \in 1..n : idx[r] = k
    IN  Tab([k \in 1..n |->
            IF rank(k) > m THEN sorted[rank(k)]
            ELSE Quot(Sign(sorted[rank(k)]) * term, m)])

\* line 108: np.linalg.norm(alphas, 1)
Norm1(al) == SeqSum([k \in 1..Len(al) |-> Abs(al[k])])

\* fit, line 156: np.max(np.abs(W - W_old))
MaxAbsDiff(M, N) ==
    SeqMax([j \in 1..NFeat(M) |->
              SeqMax([k \in 1..NTask(M) |-> Abs(M[j][k] - N[j][k])])])

NeverConverged(u) == FALSE

\* fit, line 157: the convergence test
Converged(u) == u < tolerance

KeepSmall(M) == M

\* fit, line 163: W[np.abs(W) < 0.1] = 0
ZeroSmall(M) ==
    Tab([j \in 1..NFeat(M) |-> Tab([k \in 1..NTask(M) |->
        IF Abs(M[j][k]) < w_floor THEN 0 ELSE M[j][k]])])

ColdStart(Sarg, Barg, p, t) == [S |-> Zeros(p, t), B |-> Zeros(p, t)]

\* fit, lines 143-145: S and B as given, or zeros when either is missing
WarmStart(Sarg, Barg, p, t) ==
    IF Sarg = None \/ Barg = None
    THEN [S |-> Zeros(p, t), B |-> Zeros(p, t)]
    ELSE [S |-> Sarg, B |-> Barg]

---------------------------------------------------------------------------
(* ebic and the grid of run_regression_EBIC_SS *)

\* float('Inf'), larger than any score
PosInf == 10 ^ 9

NegInf == -PosInf

\* line 335: np.logspace(np.log10(0.01), np.log10(10), 20)[::-1]
Cs == <<10000, 6951, 4832, 3359, 2335, 1623, 1128, 784, 545, 379,
        263, 183, 127, 88, 61, 42, 29, 20, 14, 10>>

\* line 336: np.linspace(0.51, 0.99, 10)[::-1]
Ss == <<990, 936, 883, 830, 776, 723, 670, 616, 563, 510>>

\* line 337: np.sqrt((n_tasks * np.log(n_preds)) / np.mean(n_samples))
LamBParam(n_tasks, n_preds, n_samples) ==
    ISqrt(Quot(n_tasks * LnInt(n_preds) * Len(n_samples), SeqSum(n_samples)) * SCALE)

\* line 348
TmpLamB(g, lamBparam) == Quot(Cs[g[1]] * lamBparam, SCALE)

\* line 350
TmpLamS(g, lamBparam) == Quot(Ss[g[2]] * TmpLamB(g, lamBparam), SCALE)

RECURSIVE comb(_, _)
comb(n, k) == IF k = 0 \/ k = n THEN 1 ELSE comb(n - 1, k - 1) + comb(n - 1, k)

\* sum_squared_erros, in SCALE^2 units
sum_squared_erros(X, Y, Wm, k) ==
    SeqSum([i \in 1..Len(X[k]) |->
        LET r == Y[k][i] - Quot(SeqSum([j \in 1..NFeat(Wm) |-> X[k][i][j] * Wm[j][k]]), SCALE)
        IN  r * r])

\* ebic with gamma = 1; log(0) is -inf and makes the mean -inf
ebic(X, Y, Wm, n_tasks, n_samples, n_preds) ==
    LET RSS(k)  == sum_squared_erros(X, Y, Wm, k)
        nz(k)   == Cardinality({j \in 1..n_preds : Wm[j][k] # 0})
        term(k) == LET n == n_samples[k]
                   IN  n * (LnInt(RSS(k)) - 2 * LnInt(SCALE) - LnInt(n))
                       + nz(k) * LnInt(n)
                       + 2 * LnInt(comb(n_preds, nz(k)))
    IN  IF \E k \in 1..n_tasks : RSS(k) = 0 THEN NegInf
        ELSE Quot(SeqSum([k \in 1..n_tasks |-> term(k)]), n_tasks)

BetterOrEqual(score, min_ebic) == score <= min_ebic

\* line 355: the test that replaces the kept model
Better(score, min_ebic) == score < min_ebic

\* lines 347-349: the grid point after g, outer loop over Cs, inner over Ss
NextGrid(g) == IF g[2] < Len(Ss) THEN <<g[1], g[2] + 1>> ELSE <<g[1] + 1, 1>>

GridIndex(g) == (g[1] - 1) * Len(Ss) + g[2]

\* lines 330-332
NSamples(X) == Tab([k \in 1..Len(X) |-> Len(X[k])])
NPreds(X) == Len(X[1][1])

---------------------------------------------------------------------------
(* fit, as a sequence of steps *)

NoTrace == [startS |-> None, startB |-> None, endS |-> None, endB |-> None,
            alphaS |-> None, alphaB |-> None]

\* fit, lines 139-146, called with the arguments (Carg, Darg, Sarg, Barg, lb, ls)
FitEnter(Carg, Darg, Sarg, Barg, lb, ls) ==
    LET t  == Len(Xs)
        p  == NPreds(Xs)
        cd == IF Carg = None \/ Darg = None
              THEN covariance_update_terms(t, p, Xs, Ys)
              ELSE [C |-> Carg, D |-> Darg]
        sb == WarmStart(Sarg, Barg, p, t)
    IN  /\ C' = cd.C
        /\ D' = cd.D
        /\ S' = sb.S
        /\ B' = sb.B
        /\ W' = MatAdd(sb.S, sb.B)
        /\ lamB' = lb
        /\ lamS' = ls
        /\ n_iter' = 0
        /\ cursor' = << >>
        /\ alphas' = << >>
        /\ indices' = << >>
        /\ sorted_alphas' = << >>
        /\ m_star' = 0
        /\ trace' = [trace EXCEPT !.startS = sb.S, !.startB = sb.B]
        /\ pc' = "iter"

\* a caller's model.fit(X, Y, lamB, lamS[, S=S, B=B]) on its own data
DirectCallFit ==
    /\ pc = "fitcall"
    /\ FitEnter(C, D, S, B, lamB, lamS)
    /\ UNCHANGED <<design, response, args, args0, caller, Xs, Ys, W_old, update,
                   grid, best, output, error, hist>>

\* fit, lines 148-150: the loop goes into another round
RoundBegin ==
    /\ pc = "iter"
    /\ n_iter < max_iter
    /\ W_old' = W
    /\ cursor' = <<1, 1>>
    /\ trace' = [trace EXCEPT !.alphaS = Zeros(NFeat(S), NTask(S)),
                              !.alphaB = Zeros(NFeat(S), NTask(S))]
    /\ pc' = "updateS"
    /\ UNCHANGED <<design, response, args, args0, caller, Xs, Ys, C, D, S, B, W,
                   alphas, indices, sorted_alphas, m_star, lamB, lamS, n_iter,
                   update, grid, best, output, error, hist>>

\* the <<task, feature>> after cur in updateS, << >> after the last
NextCoordinate(cur, p, t) ==
    IF cur[2] < p THEN <<cur[1], cur[2] + 1>>
    ELSE IF cur[1] < t THEN <<cur[1] + 1, 1>>
    ELSE << >>

\* updateS, lines 58-77: the coefficient of one predictor in one task; tasks
\* in order, predictors in order within a task, each write read by the next
UpdateSStep ==
    /\ pc = "updateS"
    /\ LET k   == cursor[1]
           j   == cursor[2]
           a   == AlphaS(C, D, B, S, k, j)
           nxt == NextCoordinate(cursor, NFeat(S), NTask(S))
       IN  /\ S' = [S EXCEPT ![j][k] = ThresholdS(a, lamS)]
           /\ trace' = [trace EXCEPT !.alphaS[j][k] = a]
           /\ cursor' = IF nxt = << >> THEN <<1>> ELSE nxt
           /\ pc' = IF nxt = << >> THEN "updateB" ELSE "updateS"
    /\ UNCHANGED <<design, response, args, args0, caller, Xs, Ys, C, D, B, W,
                   W_old, lamB, lamS, n_iter, update, alphas, indices,
                   sorted_alphas, m_star, grid, best, output, error, hist>>

\* updateB, lines 90-106: the coefficients of one predictor in every task
\* from the fit alone, the predictor's row of B taken as zero
UpdateBAlphas ==
    /\ pc = "updateB"
    /\ LET j  == cursor[1]
           al == Tab([k \in 1..NTask(B) |-> AlphaB(C, D, B, S, k, j)])
       IN  /\ alphas' = al
           /\ trace' = [trace EXCEPT !.alphaB[j] = al]
    /\ pc' = "shrinkB"
    /\ UNCHANGED <<design, response, args, args0, caller, Xs, Ys, C, D, S, B, W,
                   W_old, lamB, lamS, n_iter, update, cursor, indices,
                   sorted_alphas, m_star, grid, best, output, error, hist>>

\* updateB, lines 108-128: the row of the predictor, all tasks together;
\* predictors in order, each row read by the next
UpdateBStep ==
    /\ pc = "shrinkB"
    /\ LET j == cursor[1]
       IN  /\ IF Norm1(alphas) <= lamB
              THEN /\ B' = [B EXCEPT ![j] = Tab([k \in 1..NTask(B) |-> 0])]
                   /\ UNCHANGED <<indices, sorted_alphas, m_star>>
              ELSE /\ indices' = SortedIndices(alphas)
                   /\ sorted_alphas' = Tab([r \in 1..Len(alphas) |-> alphas[indices'[r]]])
                   /\ m_star' = MStar(sorted_alphas', lamB)
                   /\ B' = [B EXCEPT ![j] =
                               new_weights(indices', sorted_alphas', m_star', lamB)]
           /\ cursor' = IF j < NFeat(B) THEN <<j + 1>> ELSE << >>
           /\ pc' = IF j < NFeat(B) THEN "updateB" ELSE "roundend"
    /\ UNCHANGED <<design, response, args, args0, caller, Xs, Ys, C, D, S, W,
                   W_old, lamB, lamS, n_iter, update, alphas, grid, best,
                   output, error, hist, trace>>

\* fit, lines 154-158: W, the convergence criterion and the end of the round
RoundEnd ==
    /\ pc = "roundend"
    /\ W' = MatAdd(S, B)
    /\ update' = MaxAbsDiff(W', W_old)
    /\ n_iter' = n_iter + 1
    /\ pc' = IF Converged(update') \/ n_iter' = max_iter THEN "exit" ELSE "iter"
    /\ UNCHANGED <<design, response, args, args0, caller, Xs, Ys, C, D, S, B,
                   W_old, lamB, lamS, cursor, alphas, indices, sorted_alphas,
                   m_star, grid, best, output, error, hist, trace>>

\* fit, lines 160-165
FitReturn ==
    /\ pc = "exit"
    /\ W' = ZeroSmall(MatAdd(S, B))
    /\ trace' = [trace EXCEPT !.endS = S, !.endB = B]
    /\ pc' = IF caller = "grid" THEN "score" ELSE "returned"
    /\ UNCHANGED <<design, response, args, args0, caller, Xs, Ys, C, D, S, B,
                   W_old, lamB, lamS, n_iter, update, cursor, alphas, indices,
                   sorted_alphas, m_star, grid, best, output, error, hist>>

---------------------------------------------------------------------------
(* Inputs *)

\* raw expression data of one task for one gene: a design matrix over the
\* regulators and the gene's response, in fixed-point units
DataSets ==
    << [X |-> << <<0, 1>>, <<1, 0>>, <<2, 2>> >>,            Y |-> <<0, 1, 3>>],
       [X |-> << <<0, 0>>, <<1, 2>>, <<2, 1>> >>,            Y |-> <<2, 1, 0>>],
       [X |-> << <<0, 1>>, <<1, 1>>, <<2, 0>>, <<3, 1>> >>,  Y |-> <<0, 1, 1, 3>>],
       [X |-> << <<1, 0>>, <<1, 1>>, <<1, 3>> >>,            Y |-> <<0, 2, 1>>] >>

\* two nearly collinear regulators, for which coordinate descent is slow
IllConditioned ==
    [X |-> << << <<3000, 3000>>, <<100, 0>> >>, << <<3000, 3000>>, <<100, 0>> >> >>,
     Y |-> << <<0, 10000>>, <<0, 10000>> >>]

\* data a caller may hand to fit: standardized pairs of tasks, and the
\* ill-conditioned pair as it is
FitData ==
    { preprocess_data(2, <<DataSets[a].X, DataSets[b].X>>, <<DataSets[a].Y, DataSets[b].Y>>)
        : a \in 1..Len(DataSets), b \in 1..Len(DataSets) }
    \cup {IllConditioned}

MaxLamSteps == 2

\* penalties a caller may hand to fit
LamChoices == {0} \cup {i * (SCALE \div 2) : i \in 1..MaxLamSteps}

\* warm starts a caller may hand to fit: none, or S and B of opposite signs
WarmChoices ==
    { [S |-> None, B |-> None],
      [S |-> [j \in 1..2 |-> [k \in 1..2 |-> -(SCALE \div 2)]],
       B |-> [j \in 1..2 |-> [k \in 1..2 |-> SCALE \div 2]]] }

---------------------------------------------------------------------------
(* MT_SBS_regression.run and run_regression_EBIC_SS *)

\* len(design): the number of original tasks
NDesign == 3

TaskIds == 0..(NDesign - 1)

regulators == <<"tf1", "tf2">>

gene == "g1"

\* the datasets original task k may hold
DataChoices(k) == {(k % Len(DataSets)) + 1, ((k + 1) % Len(DataSets)) + 1}

RECURSIVE Ascending(_)
Ascending(set) ==
    IF set = {} THEN << >>
    ELSE LET m == CHOOSE x \in set : \A y \in set : x <= y
         IN  <<m>> \o Ascending(set \ {m})

\* positions in names of the names kept in sel, in the order of sel
Positions(names, sel) ==
    Tab([i \in 1..Len(sel) |-> CHOOSE q \in 1..Len(names) : names[q] = sel[i]])

\* M[:, cols]
SelectColumns(M, cols) ==
    Tab([i \in 1..Len(M) |-> Tab([c \in 1..Len(cols) |-> M[i][cols[c]]])])

\* run, lines 205-220: the args of one gene
BuildArgs(g) ==
    LET TFs   == SelectSeq(regulators, LAMBDA tf : tf # g)
        tasks == Ascending({k \in TaskIds : response[k] # None})
    IN  [X     |-> Tab([q \in 1..Len(tasks) |->
                        SelectColumns(design[tasks[q]], Positions(regulators, TFs))]),
         Y     |-> Tab([q \in 1..Len(tasks) |-> response[tasks[q]]]),
         TFs   |-> TFs,
         tasks |-> tasks,
         gene  |-> g]

\* run, lines 203-225 for one gene: its args are built and, with data in more
\* than one task, handed to run_regression_EBIC_SS
RunBuildArgs ==
    /\ pc = "run"
    /\ LET a == BuildArgs(gene)
       IN  IF Len(a.X) > 1
           THEN args' = a /\ pc' = "call"
           ELSE args' = args /\ pc' = "skipped"
    /\ UNCHANGED <<design, response, args0, caller, Xs, Ys, C, D, S, B, W,
                   W_old, lamB, lamS, n_iter, update, cursor, alphas, indices,
                   sorted_alphas, m_star, grid, best, output, error, hist,
                   trace>>

\* run_regression_EBIC_SS, lines 325-345.  X and Y are the lists args holds,
\* and preprocess_data assigns their elements.
RegressionSetup ==
    /\ pc = "call"
    /\ LET n_tasks == Len(args.X)
           n_preds == NPreds(args.X)
           pre     == preprocess_data(n_tasks, args.X, args.Y)
           cd      == covariance_update_terms(n_tasks, n_preds, pre.X, pre.Y)
       IN  /\ args0' = args
           /\ args' = [args EXCEPT !.X = pre.X, !.Y = pre.Y]
           /\ Xs' = pre.X
           /\ Ys' = pre.Y
           /\ C' = cd.C
           /\ D' = cd.D
           /\ S' = Zeros(n_preds, n_tasks)
           /\ B' = Zeros(n_preds, n_tasks)
    /\ best' = [min_ebic |-> PosInf, lamB |-> None, lamS |-> None, outW |-> None]
    /\ grid' = <<1, 1>>
    /\ caller' = "grid"
    /\ pc' = "grid"
    /\ UNCHANGED <<design, response, W, W_old, lamB, lamS, n_iter, update,
                   cursor, alphas, indices, sorted_alphas, m_star, output,
                   error, hist, trace>>

\* lines 347-351: the next grid point's penalties and its call of fit
GridCallFit ==
    /\ pc = "grid"
    /\ LET lamBparam == LamBParam(Len(Xs), NPreds(Xs), NSamples(Xs))
       IN  FitEnter(C, D, S, B, TmpLamB(grid, lamBparam), TmpLamS(grid, lamBparam))
    /\ UNCHANGED <<design, response, args, args0, caller, Xs, Ys, W_old, update,
                   grid, best, output, error, hist>>

\* lines 354-359 and the loops' advance
GridScore ==
    /\ pc = "score"
    /\ LET score == ebic(Xs, Ys, W, Len(Xs), NSamples(Xs), NPreds(Xs))
       IN  /\ best' = IF Better(score, best.min_ebic)
                      THEN [min_ebic |-> score, lamB |-> lamB, lamS |-> lamS, outW |-> W]
                      ELSE best
           /\ hist' = Append(hist, [ebic |-> score, W |-> W, lamB |-> lamB, lamS |-> lamS])
    /\ grid' = NextGrid(grid)
    /\ pc' = IF NextGrid(grid)[1] > Len(Cs) THEN "rescale" ELSE "grid"
    /\ UNCHANGED <<design, response, args, args0, caller, Xs, Ys, C, D, S, B, W,
                   W_old, lamB, lamS, n_iter, update, cursor, alphas, indices,
                   sorted_alphas, m_star, output, error, trace>>

\* the table final_weights returns for one task: its regulator and target
\* columns, and the data its weights and resc_weights are fitted on
ResultTable(X, y, cTFs, g) ==
    [regulator |-> cTFs, target |-> g, X |-> X, y |-> y]

RECURSIVE RescaleFrom(_, _)
\* lines 393-397 for the task identifiers ts still to do.  k indexes outW, X
\* and Y by position; an out-of-range k, or a mask on TFs of another length,
\* raises IndexError.
RescaleFrom(ts, out) ==
    IF ts = << >> THEN [error |-> "none", out |-> out]
    ELSE LET k   == Head(ts)
             pos == k + 1
         IN  IF pos > NTask(best.outW) THEN [error |-> "IndexError", out |-> out]
             ELSE LET nonzero == Ascending({j \in 1..NFeat(best.outW) : best.outW[j][pos] # 0})
                  IN  IF nonzero = << >> THEN RescaleFrom(Tail(ts), out)
                      ELSE IF Len(args.TFs) # NFeat(best.outW)
                      THEN [error |-> "IndexError", out |-> out]
                      ELSE RescaleFrom(Tail(ts),
                             Tab([x \in (DOMAIN out) \cup {k} |->
                                    IF x = k
                                    THEN ResultTable(SelectColumns(Xs[pos], nonzero), Ys[pos],
                                            Tab([c \in 1..Len(nonzero) |-> args.TFs[nonzero[c]]]),
                                            args.gene)
                                    ELSE out[x]]))

\* lines 391-400: outW is unbound when no score was below infinity
Rescale ==
    /\ pc = "rescale"
    /\ LET r == IF best.outW = None THEN [error |-> "NameError", out |-> << >>]
                ELSE RescaleFrom(args.tasks, << >>)
       IN  /\ error' = r.error
           /\ output' = IF r.error = "none" THEN [gene |-> args.gene, tasks |-> r.out]
                        ELSE None
           /\ pc' = IF r.error = "none" THEN "done" ELSE "raised"
    /\ UNCHANGED <<design, response, args, args0, caller, Xs, Ys, C, D, S, B, W,
                   W_old, lamB, lamS, n_iter, update, cursor, alphas, indices,
                   sorted_alphas, m_star, grid, best, hist, trace>>

Idle ==
    /\ Xs = None /\ Ys = None /\ C = None /\ D = None /\ S = None /\ B = None
    /\ W = None /\ W_old = None /\ lamB = 0 /\ lamS = 0 /\ n_iter = 0 /\ update = 0
    /\ cursor = << >> /\ alphas = << >> /\ indices = << >>
    /\ sorted_alphas = << >> /\ m_star = 0
    /\ grid = None /\ best = None /\ output = None /\ error = "none"
    /\ hist = << >> /\ trace = NoTrace /\ args0 = None

\* run is called for a gene that has data in any subset of the tasks
InitRun ==
    /\ \E present \in SUBSET TaskIds :
       \E pick \in [TaskIds -> 1..Len(DataSets)] :
          /\ \A k \in TaskIds : pick[k] \in DataChoices(k)
          /\ \A k \in TaskIds \ present : pick[k] = (k % Len(DataSets)) + 1
          /\ design = [k \in TaskIds |-> DataSets[pick[k]].X]
          /\ response = [k \in TaskIds |->
                            IF k \in present THEN DataSets[pick[k]].Y ELSE None]
    /\ args = None
    /\ pc = "run" /\ caller = "grid"
    /\ Idle

\* run_regression_EBIC_SS is called by a dispatcher with args whose list of
\* regulators is shorter or longer than the design matrices are wide
InitMismatch ==
    /\ \E a \in DataChoices(0), b \in DataChoices(1) :
       \E tfs \in {<<"tf1">>, <<"tf1", "tf2", "tf3">>} :
          args = [X |-> <<DataSets[a].X, DataSets[b].X>>,
                  Y |-> <<DataSets[a].Y, DataSets[b].Y>>,
                  TFs |-> tfs, tasks |-> <<0, 1>>, gene |-> gene]
    /\ design = None /\ response = None
    /\ pc = "call" /\ caller = "grid"
    /\ Idle

Init == InitRun \/ InitMismatch

Next ==
    \/ RunBuildArgs
    \/ RegressionSetup
    \/ GridCallFit
    \/ RoundBegin
    \/ UpdateSStep
    \/ UpdateBAlphas
    \/ UpdateBStep
    \/ RoundEnd
    \/ FitReturn
    \/ GridScore
    \/ Rescale

Spec == Init /\ [][Next]_vars

---------------------------------------------------------------------------
(* fit called on its own *)

InitFit ==
    /\ \E d \in FitData : Xs = d.X /\ Ys = d.Y
    /\ \E w \in WarmChoices : S = w.S /\ B = w.B
    /\ lamB \in LamChoices
    /\ lamS \in LamChoices
    /\ C = None /\ D = None
    /\ pc = "fitcall" /\ caller = "direct"
    /\ design = None /\ response = None /\ args = None /\ args0 = None
    /\ W = None /\ W_old = None /\ n_iter = 0 /\ update = 0
    /\ cursor = << >> /\ alphas = << >> /\ indices = << >>
    /\ sorted_alphas = << >> /\ m_star = 0
    /\ grid = None /\ best = None /\ output = None /\ error = "none"
    /\ hist = << >> /\ trace = NoTrace

NextFit ==
    \/ DirectCallFit
    \/ RoundBegin
    \/ UpdateSStep
    \/ UpdateBAlphas
    \/ UpdateBStep
    \/ RoundEnd
    \/ FitReturn

SpecFit == InitFit /\ [][NextFit]_vars

FairSpecFit == SpecFit /\ WF_vars(NextFit)


---------------------------------------------------------------------------
(* final_weights with one regulator, in exact rational arithmetic *)

RECURSIVE GCD(_, _)
GCD(a, b) == IF b = 0 THEN a ELSE GCD(b, a % b)

\* the rational a / b in lowest terms, b # 0
Frac(a, b) ==
    LET g == GCD(Abs(a), Abs(b))
    IN  [num |-> Sign(b) * (a \div g), den |-> Abs(b) \div g]

FracDiv(x, y) == Frac(x.num * y.den, x.den * y.num)

OneMinus(x) == Frac(x.den - x.num, x.den)

\* n^2 * np.var(v) for a vector of integers
VarTimesN2(v) ==
    Len(v) * SeqSum([i \in 1..Len(v) |-> v[i] * v[i]]) - SeqSum(v) * SeqSum(v)

\* LinearRegression().fit(X, y) on one regulator x with intercept: the slope
\* is M / N, and n * N * (y[i] - prediction[i]) is the integer R[i]
OlsOne(x, y) ==
    LET n  == Len(x)
        sx == SeqSum(x)
        sy == SeqSum(y)
        N  == VarTimesN2(x)
        M  == n * SeqSum([i \in 1..n |-> x[i] * y[i]]) - sx * sy
    IN  [coef |-> Frac(M, N),
         unit |-> n * N,
         R    |-> Tab([i \in 1..n |-> N * (n * y[i] - sy) - M * (n * x[i] - sx)])]

\* np.var of the residuals themselves
ResidualVar(x, y) ==
    LET n   == Len(x)
        ols == OlsOne(x, y)
    IN  Frac(VarTimesN2(ols.R), n * n * ols.unit * ols.unit)

\* line 303: var_full = np.var((y - ols.predict(X))**2)
VarFull(x, y) ==
    LET n   == Len(x)
        ols == OlsOne(x, y)
        sq  == Tab([i \in 1..n |-> ols.R[i] * ols.R[i]])
    IN  Frac(VarTimesN2(sq), n * n * ols.unit * ols.unit * ols.unit * ols.unit)

\* final_weights, lines 295-306 and 316-318, for len(TFs) = 1
final_weights(X, y, TFs, g) ==
    LET x == Column(X, 1)
    IN  [regulator    |-> TFs,
         target       |-> g,
         weights      |-> <<OlsOne(x, y).coef>>,
         resc_weights |-> <<OneMinus(FracDiv(VarFull(x, y), Frac(VarTimesN2(y), Len(y) * Len(y))))>>]

NObs == 3

MaxVal == 2

\* one regulator's values and the response over NObs samples, neither constant
Vectors == {v \in [1..NObs -> 0..MaxVal] : VarTimesN2(v) # 0}

InitFW ==
    /\ \E x \in Vectors : Xs = Tab([i \in 1..NObs |-> <<x[i]>>])
    /\ Ys \in Vectors
    /\ args = [TFs |-> <<"tf1">>, gene |-> gene]
    /\ pc = "fw" /\ caller = "direct"
    /\ design = None /\ response = None /\ args0 = None
    /\ C = None /\ D = None /\ S = None /\ B = None
    /\ W = None /\ W_old = None /\ lamB = 0 /\ lamS = 0 /\ n_iter = 0 /\ update = 0
    /\ cursor = << >> /\ alphas = << >> /\ indices = << >>
    /\ sorted_alphas = << >> /\ m_star = 0
    /\ grid = None /\ best = None /\ output = None /\ error = "none"
    /\ hist = << >> /\ trace = NoTrace

CallFinalWeights ==
    /\ pc = "fw"
    /\ output' = final_weights(Xs, Ys, args.TFs, args.gene)
    /\ pc' = "fwdone"
    /\ UNCHANGED <<design, response, args, args0, caller, Xs, Ys, C, D, S, B, W,
                   W_old, lamB, lamS, n_iter, update, cursor, alphas, indices,
                   sorted_alphas, m_star, grid, best, error, hist, trace>>

NextFW == CallFinalWeights

SpecFW == InitFW /\ [][NextFW]_vars

\* run_regression_EBIC_SS from run or a dispatcher, and fit called on its own
InitAll == Init \/ InitFit

NextAll == Next \/ DirectCallFit

SpecAll == InitAll /\ [][NextAll]_vars

---------------------------------------------------------------------------
(* Properties *)

InFit == pc \in {"iter", "exit"}

AfterFit == pc \in {"returned", "score"}

GridDone == pc \in {"rescale", "done", "raised"}

Entries(M) == {<<j, k>> : j \in 1..NFeat(M), k \in 1..NTask(M)}

\* C1, as stated: W = S + B wherever W is read: at every iteration boundary of
\* fit and in the triple (W, S, B) that fit returns.
C1_WIsSPlusB ==
    (InFit \/ AfterFit) => \A e \in Entries(W) : W[e[1]][e[2]] = S[e[1]][e[2]] + B[e[1]][e[2]]

\* C1, amended: W = S + B at every iteration boundary of fit; in the triple
\* fit returns, an entry of W is 0 where |S + B| < 0.1 and S + B elsewhere.
C1_WIsFlooredSPlusB ==
    /\ InFit => \A e \in Entries(W) : W[e[1]][e[2]] = S[e[1]][e[2]] + B[e[1]][e[2]]
    /\ AfterFit => \A e \in Entries(W) :
          LET sum == S[e[1]][e[2]] + B[e[1]][e[2]]
          IN  W[e[1]][e[2]] = IF -w_floor < sum /\ sum < w_floor THEN 0 ELSE sum

\* a fit returned a W with an entry zeroed where S + B is not zero, and
\* another entry kept
C1_Witness ==
    /\ AfterFit
    /\ \E e \in Entries(W) : W[e[1]][e[2]] = 0 /\ S[e[1]][e[2]] + B[e[1]][e[2]] # 0
    /\ \E e \in Entries(W) : W[e[1]][e[2]] # 0

\* C2: for a gene with data in a subset T (|T| >= 2) of the original tasks,
\* run_regression_EBIC_SS returns without error a mapping whose task keys are
\* in T, the record under key k built from the coefficient column and the
\* standardized design and response of original task k.
C2_RecordsOfOriginalTasks ==
    (design # None /\ pc \in {"done", "raised"}) =>
        /\ error = "none"
        /\ pc = "done"
        /\ \A k \in DOMAIN output.tasks :
              /\ response[k] # None
              /\ LET pos     == CHOOSE q \in 1..Len(args0.tasks) : args0.tasks[q] = k
                     nonzero == Ascending({j \in 1..NFeat(best.outW) : best.outW[j][pos] # 0})
                 IN  output.tasks[k] =
                        ResultTable(
                            SelectColumns(StandardizeMat(SelectColumns(design[k],
                                              Positions(regulators, args0.TFs))), nonzero),
                            StandardizeCol(response[k]),
                            [c \in 1..Len(nonzero) |-> args0.TFs[nonzero[c]]],
                            gene)

\* the first position of h whose score is the least of the scores in h
FirstMin(h) ==
    LET scores == {h[q].ebic : q \in 1..Len(h)}
        m      == CHOOSE x \in scores : \A y \in scores : x <= y
    IN  CHOOSE i \in 1..Len(h) : h[i].ebic = m /\ \A q \in 1..(i - 1) : h[q].ebic # m

\* the corner points of the grid, as positions in the traversal
Corners == {1, Len(Ss), (Len(Cs) - 1) * Len(Ss) + 1, Len(Cs) * Len(Ss)}

\* C3: the grid search keeps the W, lamB and lamS of the first grid point, in
\* traversal order, whose EBIC is the minimum over the grid points evaluated,
\* all 20 x 10 of them at the end; the kept score is no worse than that of
\* any corner of the grid.
C3_KeepsFirstMinimum ==
    hist # << >> =>
        LET i == FirstMin(hist)
        IN  /\ best.min_ebic = hist[i].ebic
            /\ best.outW = hist[i].W
            /\ best.lamB = hist[i].lamB
            /\ best.lamS = hist[i].lamS
            /\ \A q \in 1..Len(hist) : hist[i].ebic <= hist[q].ebic
            /\ GridDone =>
                  /\ Len(hist) = Len(Cs) * Len(Ss)
                  /\ \A q \in Corners : best.min_ebic <= hist[q].ebic

\* the grid is done, and a later grid point with other penalties scored the
\* same as the kept one
C3_Witness ==
    /\ GridDone
    /\ \E q \in 1..Len(hist) :
          /\ hist[q].ebic = best.min_ebic
          /\ hist[q].lamS # best.lamS
          /\ q > FirstMin(hist)

\* C4: in a gene's grid search the first fit starts from S = B = 0 and every
\* later fit from the S and B with which the fit before it ended; C and D are
\* those computed once from the standardized data.
C4_WarmStartChain ==
    /\ (caller = "grid" /\ pc = "iter" /\ n_iter = 0) =>
          /\ hist = << >> =>
                /\ trace.startS = Zeros(NPreds(Xs), Len(Xs))
                /\ trace.startB = Zeros(NPreds(Xs), Len(Xs))
          /\ hist # << >> =>
                /\ trace.startS = trace.endS
                /\ trace.startB = trace.endB
          /\ S = trace.startS
          /\ B = trace.startB
    /\ (caller = "grid" /\ pc \in {"grid", "iter", "exit", "score", "rescale"}) =>
          /\ C = covariance_update_terms(Len(Xs), NPreds(Xs), Xs, Ys).C
          /\ D = covariance_update_terms(Len(Xs), NPreds(Xs), Xs, Ys).D

\* the first fit of a later outer value starts from nonzero S and B
C4_Witness ==
    /\ caller = "grid" /\ pc = "iter" /\ n_iter = 0
    /\ hist # << >> /\ Len(hist) % Len(Ss) = 0
    /\ trace.startS # Zeros(NPreds(Xs), Len(Xs))
    /\ trace.startB # Zeros(NPreds(Xs), Len(Xs))

\* C5: after run_regression_EBIC_SS the args it was given, the X and Y lists
\* and the matrices they hold among them, are unchanged.
C5_ArgsUnchanged ==
    (args0 # None /\ pc \in {"done", "raised"}) => args = args0

\* C6: called with design matrices whose number of columns differs from the
\* length of the regulator list, run_regression_EBIC_SS raises
\* ShapeMismatchError before any standardization, covariance computation,
\* solver iteration or grid point.
C6_ShapeMismatchRaised ==
    (args0 # None /\ Len(args0.TFs) # NPreds(args0.X)) =>
        /\ pc = "raised"
        /\ error = "ShapeMismatchError"
        /\ args = args0
        /\ C = None /\ D = None
        /\ hist = << >>

\* C7: updateB with lamB = 0 writes to B[j,k] the unregularized estimate
\* alphas[k] computed for feature j: every row updateB has written in the
\* round equals the alphas computed for it.
C7_NoShrinkageAtZero ==
    /\ (lamB = 0 /\ pc = "updateB") =>
          \A j \in 1..(cursor[1] - 1) : B[j] = trace.alphaB[j]
    /\ (lamB = 0 /\ (pc = "roundend" \/ (n_iter >= 1 /\ (InFit \/ AfterFit)))) =>
          B = trace.alphaB

\* updateB ran with lamB = 0 on a row of alphas all zero and on a row of
\* nonzero alphas equal in magnitude
C7_Witness ==
    /\ lamB = 0 /\ pc = "roundend"
    /\ \E j \in 1..NFeat(B) : \A k \in 1..NTask(B) : trace.alphaB[j][k] = 0
    /\ \E j \in 1..NFeat(B) :
          /\ trace.alphaB[j][1] # 0
          /\ \A k \in 1..NTask(B) : Abs(trace.alphaB[j][k]) = Abs(trace.alphaB[j][1])

\* C8: final_weights with one regulator returns 1 - Vf/V, Vf the variance of
\* the full model's residuals and V the variance of y.
C8_SingleRegulatorImportance ==
    pc = "fwdone" =>
        output.resc_weights[1] =
            OneMinus(FracDiv(ResidualVar(Column(Xs, 1), Ys),
                             Frac(VarTimesN2(Ys), Len(Ys) * Len(Ys))))

FitStopRule ==
    /\ error = "none"
    /\ n_iter <= max_iter
    /\ pc = "iter" => n_iter < max_iter /\ (n_iter > 0 => update >= tolerance)
    /\ (pc = "exit" \/ pc = "returned") =>
          /\ n_iter >= 1
          /\ update < tolerance \/ n_iter = max_iter
          /\ NFeat(W) = NFeat(S) /\ NFeat(S) = NFeat(B)

\* C9: fit terminates and returns (W, S, B) without raising; it runs rounds
\* of updateS and updateB and stops after the first round whose update is
\* below the tolerance, or after max_iter rounds.
C9_FitTerminates == []FitStopRule /\ <>(pc = "returned")

\* a fit returned after max_iter rounds, its last update not below the
\* tolerance
C9_Witness == pc = "returned" /\ n_iter = max_iter /\ update >= tolerance

\* updateS has run to its end in a round of the fit
AfterUpdateS ==
    \/ pc \in {"updateB", "roundend"}
    \/ n_iter >= 1 /\ (InFit \/ AfterFit)

\* C10: after updateS with lamS >= 0 no entry of S is negative, and an entry
\* whose alpha is at most lamS, however negative, is zero.
C10_SparseNonNegative ==
    (lamS >= 0 /\ AfterUpdateS) =>
        \A e \in Entries(S) :
            /\ S[e[1]][e[2]] >= 0
            /\ trace.alphaS[e[1]][e[2]] <= lamS => S[e[1]][e[2]] = 0

\* updateS zeroed an entry whose alpha is negative and larger in magnitude
\* than a positive lamS
C10_Witness ==
    /\ lamS > 0 /\ AfterUpdateS
    /\ \E e \in Entries(S) :
          /\ trace.alphaS[e[1]][e[2]] < -lamS
          /\ S[e[1]][e[2]] = 0

====
